---------------------------- MODULE Spec2Model ----------------------------
(***************************************************************************)
(* A model of progress_table.ProgressTable: the column registry, the row   *)
(* buffer, the row history, the line discipline of the renderer and the    *)
(* generator returned by table(iterable).                                  *)
(*                                                                         *)
(* The table's fields are the variables of the same names.  The terminal   *)
(* is modelled by `cur', the pieces written on the current line since the  *)
(* last newline, and `out', the lines completed by the most recent         *)
(* operation.  `op' records the most recent operation and whether it       *)
(* raised.  `written', `final' and `header_seen' are history variables:    *)
(* what the caller has written to the row being built and to each          *)
(* finalized row, and whether a header has ever been printed.  `stray'     *)
(* tells whether the most recent operation printed a row, a progress bar   *)
(* or a bottom border with no header open, or a header under an open one.  *)
(***************************************************************************)
EXTENDS Integers, Sequences, FiniteSets, TLC

VARIABLES columns, widths, colors, values, num_rows, header_printed,
          needs_line_ending, finished_rows, cur, out, gen, op, written, final,
          header_seen, stray

vars == <<columns, widths, colors, values, num_rows, header_printed,
          needs_line_ending, finished_rows, cur, out, gen, op, written, final,
          header_seen, stray>>

-----------------------------------------------------------------------------
(* Bounds of the model and the values its inputs are drawn from.           *)

MaxCols == 2
MaxRows == 2
MaxLen == 2
MaxData == 1
MaxDt == 2
MaxTotal == 3

Names == {"loss", "validation"}
CellValues == {"x", "y"}
Elements == {"e1", "e2"}
Gens == {1, 2}

(* ProgressTable(), ProgressTable(columns=["loss"]) and                    *)
(* ProgressTable(columns=["validation"]).                                  *)
CtorColumns == {<<>>, <<"loss">>, <<"validation">>}

(* An optional argument is None or a one-element sequence holding it.      *)
None == <<>>

(* add_column(name), and add_column(name, width=2, color="RED").           *)
AddColumnArgs == {<<None, None>>, <<<<2>>, <<"RED">>>>}

default_column_width == 8

(* 1 / progress_bar_fps, in ticks of the model's clock.                    *)
RedrawPeriod == 1

RECURSIVE SeqsUpTo(_, _)
SeqsUpTo(S, n) ==
    IF n = 0 THEN {<<>>}
    ELSE LET shorter == SeqsUpTo(S, n - 1)
         IN  shorter \cup {Append(q, x) : q \in shorter, x \in S}

Range(q) == {q[i] : i \in 1..Len(q)}

Min(a, b) == IF a < b THEN a ELSE b

-----------------------------------------------------------------------------
(* Python dicts and defaultdicts as functions on the set of their keys.    *)

EmptyMap == [k \in {} |-> None]

MapSet(m, k, v) == [x \in DOMAIN m \cup {k} |-> IF x = k THEN v ELSE m[x]]

(* defaultdict.__getitem__ on each of `keys': a missing key is inserted    *)
(* with the default.                                                       *)
Vivify(m, keys, default) ==
    [x \in DOMAIN m \cup keys |-> IF x \in DOMAIN m THEN m[x] ELSE default]

(* The value defaultdict.__getitem__ returns.                              *)
Lookup(m, k, default) == IF k \in DOMAIN m THEN m[k] ELSE default

-----------------------------------------------------------------------------
(* The table as a record, so that a method calling other methods is the    *)
(* composition of their effects.                                           *)

Self ==
    [columns |-> columns, widths |-> widths, colors |-> colors,
     values |-> values, num_rows |-> num_rows,
     header_printed |-> header_printed,
     needs_line_ending |-> needs_line_ending,
     finished_rows |-> finished_rows, cur |-> cur, out |-> out,
     written |-> written, final |-> final, header_seen |-> header_seen,
     stray |-> stray]

(* print(..., end="") of one piece of output on the current line.          *)
Emit(s, piece) ==
    [s EXCEPT !.cur = Append(@, piece),
              !.stray = \/ @
                        \/ piece \in {"row", "bar", "bottom"} /\ ~s.header_printed
                        \/ piece = "header" /\ s.header_printed]

(* print(): the current line is complete.                                  *)
Newline(s) == [s EXCEPT !.out = Append(@, s.cur), !.cur = <<>>]

(* print(end="\r"): the cursor returns to the start of the line and what   *)
(* is printed next overwrites the line.                                    *)
CarriageReturn(s) == [s EXCEPT !.cur = <<>>]

bar(s, piece) ==
    Emit([s EXCEPT !.widths = Vivify(@, Range(s.columns), default_column_width)],
         piece)

print_top_bar(s) == bar(s, "top")

print_bottom_bar(s) == bar(s, "bottom")

print_center_bar(s) == bar(s, "center")

print_header(s) ==
    LET s1 == Newline(print_top_bar(s))
        s2 == [s1 EXCEPT !.colors = Vivify(@, Range(s.columns), None)]
        s3 == Newline(Emit(s2, "header"))
        s4 == [s3 EXCEPT !.header_printed = TRUE, !.header_seen = TRUE]
    IN  Newline(print_center_bar(s4))

(* print_row that owes a line ending for an empty row too.                 *)
print_row_owes_always(s) ==
    LET s1 == IF ~s.header_printed THEN print_header(s) ELSE s
        s2 == CarriageReturn([s1 EXCEPT !.needs_line_ending = TRUE])
        s3 == [s2 EXCEPT
                 !.values = Vivify(@, Range(s.columns), ""),
                 !.widths = Vivify(@, Range(s.columns), default_column_width),
                 !.colors = Vivify(@, Range(s.columns), None)]
    IN  IF DOMAIN s1.values = {} THEN [s1 EXCEPT !.needs_line_ending = TRUE]
        ELSE Emit(s3, "row")

print_row(s) ==
    LET s1 == IF ~s.header_printed THEN print_header(s) ELSE s
    IN  IF DOMAIN s1.values = {}
        THEN s1
        ELSE LET s2 == CarriageReturn([s1 EXCEPT !.needs_line_ending = TRUE])
                 s3 == [s2 EXCEPT
                          !.values = Vivify(@, Range(s.columns), ""),
                          !.widths = Vivify(@, Range(s.columns), default_column_width),
                          !.colors = Vivify(@, Range(s.columns), None)]
             IN  Emit(s3, "row")

(* next_row with the new row put in front of the history.                  *)
next_row_in_front(s, save) ==
    LET s1 == IF s.needs_line_ending
              THEN [Newline(s) EXCEPT !.needs_line_ending = FALSE]
              ELSE s
        s2 == IF save /\ Cardinality(DOMAIN s1.values) > 0
              THEN [s1 EXCEPT !.finished_rows = <<s1.values>> \o @,
                              !.num_rows = @ + 1]
              ELSE s1
        s3 == IF save /\ DOMAIN s2.written # {}
              THEN [s2 EXCEPT !.final = Append(@, s2.written)]
              ELSE s2
    IN  [s3 EXCEPT !.values = EmptyMap, !.written = EmptyMap]

(* next_row without the test for an empty buffer.                          *)
next_row_saves_empty(s, save) ==
    LET s1 == IF s.needs_line_ending
              THEN [Newline(s) EXCEPT !.needs_line_ending = FALSE]
              ELSE s
        s2 == IF save
              THEN [s1 EXCEPT !.finished_rows = Append(@, s1.values),
                              !.num_rows = @ + 1]
              ELSE s1
        s3 == IF save /\ DOMAIN s2.written # {}
              THEN [s2 EXCEPT !.final = Append(@, s2.written)]
              ELSE s2
    IN  [s3 EXCEPT !.values = EmptyMap, !.written = EmptyMap]

next_row(s, save) ==
    LET s1 == IF s.needs_line_ending
              THEN [Newline(s) EXCEPT !.needs_line_ending = FALSE]
              ELSE s
        s2 == IF save /\ Cardinality(DOMAIN s1.values) > 0
              THEN [s1 EXCEPT !.finished_rows = Append(@, s1.values),
                              !.num_rows = @ + 1]
              ELSE s1
        \* history variables: the row the caller wrote is finalized when it
        \* is saved, and a new row starts in every case
        s3 == IF save /\ DOMAIN s2.written # {}
              THEN [s2 EXCEPT !.final = Append(@, s2.written)]
              ELSE s2
    IN  [s3 EXCEPT !.values = EmptyMap, !.written = EmptyMap]

(* close that drops the pending row.                                       *)
close_without_save(s) ==
    LET s1 == print_row(s)
        s2 == next_row(s1, FALSE)
        s3 == print_bottom_bar(s2)
        s4 == [s3 EXCEPT !.header_printed = FALSE]
    IN  Newline(s4)

(* close that leaves header_printed set.                                   *)
close_keeps_header(s) ==
    Newline(print_bottom_bar(next_row(print_row(s), TRUE)))

close(s) ==
    LET s1 == print_row(s)
        s2 == next_row(s1, TRUE)
        s3 == print_bottom_bar(s2)
        s4 == [s3 EXCEPT !.header_printed = FALSE]
    IN  Newline(s4)

-----------------------------------------------------------------------------
(* The operations.  Each starts with an empty record of completed lines.   *)

Begin == [Self EXCEPT !.out = <<>>, !.stray = FALSE]

Op(name, key, save, err) == [name |-> name, key |-> key, save |-> save, err |-> err]

Commit(s, o) ==
    /\ columns' = s.columns
    /\ widths' = s.widths
    /\ colors' = s.colors
    /\ values' = s.values
    /\ num_rows' = s.num_rows
    /\ header_printed' = s.header_printed
    /\ needs_line_ending' = s.needs_line_ending
    /\ finished_rows' = s.finished_rows
    /\ cur' = s.cur
    /\ out' = s.out
    /\ written' = s.written
    /\ final' = s.final
    /\ header_seen' = s.header_seen
    /\ stray' = s.stray
    /\ op' = o

NoGen == [pc |-> "none", items |-> <<>>, haslen |-> TRUE, yielded |-> <<>>,
          since |-> 0, drawn |-> FALSE]

Init ==
    /\ columns \in CtorColumns
    /\ num_rows = 0
    /\ widths = EmptyMap
    /\ colors = EmptyMap
    /\ values = EmptyMap
    /\ header_printed = FALSE
    /\ needs_line_ending = FALSE
    /\ finished_rows = <<>>
    /\ cur = <<>>
    /\ out = <<>>
    /\ gen = [g \in Gens |-> NoGen]
    /\ op = Op("init", "", FALSE, FALSE)
    /\ written = EmptyMap
    /\ final = <<>>
    /\ header_seen = FALSE
    /\ stray = FALSE

add_column(s, name, width, color) ==
    LET s1 == [s EXCEPT !.columns = Append(@, name)]
        w0 == IF width # None THEN width[1] ELSE default_column_width
        w  == IF w0 < Len(name) THEN Len(name) ELSE w0
        s2 == IF color # None
              THEN [s1 EXCEPT !.colors = MapSet(@, name, color[1])]
              ELSE s1
    IN  [s2 EXCEPT !.widths = MapSet(@, name, w)]

(* add_column without its assertion.                                       *)
AddColumn_Unchecked ==
    \E name \in Names, a \in AddColumnArgs :
        /\ Len(columns) < MaxCols
        /\ Commit(add_column(Begin, name, a[1], a[2]),
                  Op("add_column", name, FALSE, FALSE))
        /\ UNCHANGED gen

AddColumn ==
    \E name \in Names, a \in AddColumnArgs :
        IF header_printed
        THEN /\ Commit(Begin, Op("add_column", name, FALSE, TRUE))
             /\ UNCHANGED gen
        ELSE /\ Len(columns) < MaxCols
             /\ Commit(add_column(Begin, name, a[1], a[2]),
                       Op("add_column", name, FALSE, FALSE))
             /\ UNCHANGED gen

(* A cell write that keeps the value a column already holds.               *)
setitem_keeps_first(s, key, value) ==
    LET s1 == [s EXCEPT !.values = IF key \in DOMAIN @ /\ @[key] # ""
                                   THEN @ ELSE MapSet(@, key, value),
                        !.written = MapSet(@, key, value)]
    IN  print_row(s1)

setitem(s, key, value) ==
    LET s1 == [s EXCEPT !.values = MapSet(@, key, value),
                        !.written = MapSet(@, key, value)]
    IN  print_row(s1)

(* __setitem__ without its assertion.                                      *)
SetItem_Unchecked(Vals) ==
    \E key \in Names, value \in Vals :
        /\ Commit(setitem(Begin, key, value), Op("setitem", key, FALSE, FALSE))
        /\ UNCHANGED gen

SetItem(Vals) ==
    \E key \in Names, value \in Vals :
        IF key \notin Range(columns)
        THEN /\ Commit(Begin, Op("setitem", key, FALSE, TRUE))
             /\ UNCHANGED gen
        ELSE /\ Commit(setitem(Begin, key, value), Op("setitem", key, FALSE, FALSE))
             /\ UNCHANGED gen

PrintRow ==
    /\ Commit(print_row(Begin), Op("print_row", "", FALSE, FALSE))
    /\ UNCHANGED gen

NextRow ==
    \E save \in BOOLEAN :
        LET s == next_row(Begin, save)
        IN  /\ Len(s.finished_rows) <= MaxRows
            /\ Commit(s, Op("next_row", "", save, FALSE))
            /\ UNCHANGED gen

Close ==
    LET s == close(Begin)
    IN  /\ Len(s.finished_rows) <= MaxRows
        /\ Commit(s, Op("close", "", FALSE, FALSE))
        /\ UNCHANGED gen

(* What to_list() returns.                                                 *)
to_list(s) ==
    [i \in 1..Len(s.finished_rows) |->
        [j \in 1..Len(s.columns) |-> Lookup(s.finished_rows[i], s.columns[j], "")]]

(* What to_list() does to the table: reading row[col] of a defaultdict     *)
(* inserts the missing keys.                                               *)
to_list_effect(s) ==
    [s EXCEPT !.finished_rows =
        [i \in 1..Len(@) |-> Vivify(@[i], Range(s.columns), "")]]

ToList ==
    /\ Commit(to_list_effect(Begin), Op("to_list", "", FALSE, FALSE))
    /\ UNCHANGED gen

(* for key, value in zip(self.columns, row): self.values[key] = value      *)
stage(s, row) ==
    [s EXCEPT !.values =
        [k \in DOMAIN @ \cup Range(s.columns) |->
            IF k \in Range(s.columns)
            THEN row[CHOOSE j \in 1..Len(s.columns) :
                        /\ s.columns[j] = k
                        /\ \A h \in (j + 1)..Len(s.columns) : s.columns[h] # k]
            ELSE @[k]]]

(* The loop of display_custom from row i on, and the close() after it; the *)
(* result is the table and whether the assertion on a row's length failed. *)
RECURSIVE replay(_, _, _)
replay(s, data, i) ==
    IF i > Len(data)
    THEN [table |-> close(s), err |-> FALSE]
    ELSE IF Len(data[i]) # Len(s.columns)
         THEN [table |-> s, err |-> TRUE]
         ELSE replay(next_row(print_row(stage(s, data[i])), FALSE), data, i + 1)

display_custom(s, data) ==
    replay(IF s.header_printed THEN close(s) ELSE s, data, 1)

(* A row of display_custom's argument, by its length.                      *)
DataRow(n) == [j \in 1..n |-> "x"]

(* display_custom's arguments: every row has as many elements as there are *)
(* columns, or one more.                                                   *)
DataArgs(n) == SeqsUpTo({DataRow(n), DataRow(n + 1)}, MaxData)

DisplayCustom ==
    \E data \in DataArgs(Len(columns)) :
        LET r == display_custom(Begin, data)
        IN  /\ Len(r.table.finished_rows) <= MaxRows
            /\ Commit(r.table, Op("display_custom", "", FALSE, r.err))
            /\ UNCHANGED gen

display(s) ==
    LET s1 == IF s.header_printed THEN close(s) ELSE s
    IN  display_custom(to_list_effect(s1), to_list(s1))

Display ==
    LET r == display(Begin)
    IN  /\ Len(r.table.finished_rows) <= MaxRows
        /\ Commit(r.table, Op("display", "", FALSE, r.err))
        /\ UNCHANGED gen

-----------------------------------------------------------------------------
(* table(iterable): a generator.  Calling it runs nothing; each next()     *)
(* runs it to its next yield or to its end.                                *)

(* The bar is printed on the current line with no newline.                 *)
print_progress_bar(s) == Emit(s, "bar")

RECURSIVE SumValues(_)
SumValues(m) ==
    IF DOMAIN m = {} THEN 0
    ELSE LET k == CHOOSE x \in DOMAIN m : TRUE
         IN  m[k] + SumValues([x \in DOMAIN m \ {k} |-> m[x]])

(* math.ceil(a / n) for n > 0.                                             *)
Ceil(a, n) == -((-a) \div n)

Max(a, b) == IF a > b THEN a ELSE b

(* The width left to the bar between a prefix and a suffix of the given    *)
(* lengths: the widths registered in self.widths, 3 per gap between them   *)
(* and 2.                                                                  *)
tot_width(s, show_before, show_after) ==
    SumValues(s.widths) + 3 * (Cardinality(DOMAIN s.widths) - 1) + 2
        - show_before - show_after

(* The fill glyphs of a bar that falls one part short of the whole.        *)
num_hashes_short(i, n, tw) == Max(Ceil(i * tw, n + 1), 1)

(* max(math.ceil(i / n * tot_width), 1).  The quotient is computed exactly; *)
(* the floating-point one agrees with it for every n up to 5 and every     *)
(* width up to 40.                                                         *)
num_hashes(i, n, tw) == Max(Ceil(i * tw, n), 1)

(* Boxes.empty * num_empty prints nothing when num_empty is negative.      *)
num_empty(i, n, tw) == tw - num_hashes(i, n, tw)

empty_glyphs(i, n, tw) == Max(num_empty(i, n, tw), 0)

(* len(show_before), len(show_after): the default " " and the label        *)
(* " [0.00 it/s] " that table(iterable) passes.                            *)
LabelLens == {1, 13}

(* A wrap's `since' is time.time() - t_last_printed, in ticks, kept up to  *)
(* RedrawPeriod + 1: every greater value, the initial infinite one too,    *)
(* decides the comparison the same way.  Its `drawn' tells whether the     *)
(* wrap has drawn a bar.                                                   *)
Long == RedrawPeriod + 1

(* More than 1 / progress_bar_fps since the last redraw of this wrap.      *)

(* A redraw at every element.                                              *)
redraw_always(G) == G.since >= 0

redraw_due(G) == G.since > RedrawPeriod

(* The loop stopping one element early.                                    *)
loop_stops_early(s, G) ==
    IF Len(G.yielded) + 1 < Len(G.items)
    THEN [table |-> IF redraw_due(G) THEN print_progress_bar(CarriageReturn(s)) ELSE s,
          gen |-> [G EXCEPT !.pc = "suspended",
                            !.yielded = Append(@, G.items[Len(G.yielded) + 1]),
                            !.since = IF redraw_due(G) THEN 0 ELSE @,
                            !.drawn = @ \/ redraw_due(G)],
          fired |-> redraw_due(G), err |-> FALSE]
    ELSE [table |-> print_row(s), gen |-> [G EXCEPT !.pc = "done"],
          fired |-> FALSE, err |-> FALSE]

(* The loop starting a new row once the iterable is exhausted.             *)
loop_starts_row(s, G) ==
    IF Len(G.yielded) < Len(G.items)
    THEN [table |-> IF redraw_due(G) THEN print_progress_bar(CarriageReturn(s)) ELSE s,
          gen |-> [G EXCEPT !.pc = "suspended",
                            !.yielded = Append(@, G.items[Len(G.yielded) + 1]),
                            !.since = IF redraw_due(G) THEN 0 ELSE @,
                            !.drawn = @ \/ redraw_due(G)],
          fired |-> redraw_due(G), err |-> FALSE]
    ELSE [table |-> next_row(print_row(s), TRUE), gen |-> [G EXCEPT !.pc = "done"],
          fired |-> FALSE, err |-> FALSE]

(* One pass of `for idx, element in enumerate(iterator)' up to the yield,  *)
(* or the print_row() after the loop: the table and the generator.         *)
loop(s, G) ==
    IF Len(G.yielded) < Len(G.items)
    THEN [table |-> IF redraw_due(G) THEN print_progress_bar(CarriageReturn(s)) ELSE s,
          gen |-> [G EXCEPT !.pc = "suspended",
                            !.yielded = Append(@, G.items[Len(G.yielded) + 1]),
                            !.since = IF redraw_due(G) THEN 0 ELSE @,
                            !.drawn = @ \/ redraw_due(G)],
          fired |-> redraw_due(G), err |-> FALSE]
    ELSE [table |-> print_row(s), gen |-> [G EXCEPT !.pc = "done"],
          fired |-> FALSE, err |-> FALSE]

(* next() on the generator: from its creation, or from its last yield dt   *)
(* ticks of the clock ago.                                                 *)
step(s, G, dt) ==
    IF G.pc = "created"
    THEN LET s1 == IF ~s.header_printed THEN print_header(s) ELSE s
         IN  IF ~G.haslen
             THEN [table |-> s1, gen |-> [G EXCEPT !.pc = "failed"],
                   fired |-> FALSE, err |-> TRUE]
             ELSE loop(s1, [G EXCEPT !.since = Long])
    ELSE loop(s, [G EXCEPT !.since = Min(@ + dt, Long)])

Iterables == SeqsUpTo(Elements, MaxLen)

Wrap(g) ==
    \E items \in Iterables, haslen \in BOOLEAN :
        /\ gen[g].pc \in {"none", "done", "failed", "abandoned"}
        /\ haslen \/ items = <<>>
        /\ gen' = [gen EXCEPT ![g] = [pc |-> "created", items |-> items,
                                      haslen |-> haslen, yielded |-> <<>>,
                                      since |-> 0, drawn |-> FALSE]]
        /\ Commit(Begin, Op("wrap", "", FALSE, FALSE))

Step(g) ==
    \E dt \in 0..MaxDt :
        /\ gen[g].pc \in {"created", "suspended"}
        /\ LET r == step(Begin, gen[g], dt)
           IN  /\ gen' = [h \in Gens |->
                            IF h = g THEN r.gen
                            ELSE [gen[h] EXCEPT !.since = Min(@ + dt, Long)]]
               /\ Commit(r.table,
                         [name |-> "step", key |-> "", save |-> FALSE,
                          err |-> r.err, g |-> g, dt |-> dt, fired |-> r.fired])

(* The caller leaves the loop and drops the generator.                     *)
Abandon(g) ==
    /\ gen[g].pc \in {"created", "suspended"}
    /\ gen' = [gen EXCEPT ![g].pc = "abandoned"]
    /\ Commit(Begin, Op("abandon", "", FALSE, FALSE))

(* table.print_progress_bar(i, n, show_before, show_after), called by the  *)
(* caller itself.                                                          *)
PrintProgressBar ==
    \E n \in 1..MaxTotal, before \in LabelLens, after \in LabelLens :
        \E i \in 0..n :
            /\ Commit(print_progress_bar(Begin),
                      [name |-> "print_progress_bar", key |-> "", save |-> FALSE,
                       err |-> FALSE, i |-> i, n |-> n, show_before |-> before,
                       show_after |-> after])
            /\ UNCHANGED gen

-----------------------------------------------------------------------------
(* The table driven by its methods: the column registry, the life cycle   *)
(* of the header and the calls that raise.                                 *)

Next ==
    \/ AddColumn
    \/ SetItem({"x"})
    \/ PrintRow
    \/ NextRow
    \/ Close
    \/ ToList
    \/ DisplayCustom
    \/ Display

Spec == Init /\ [][Next]_vars

(* Rows written cell by cell, with columns added before the header is      *)
(* printed or after a close.                                               *)

InitRows ==
    /\ Init
    /\ columns = <<"loss">>

NextRows ==
    \/ AddColumn
    \/ SetItem(CellValues)
    \/ NextRow
    \/ Close
    \/ ToList

SpecRows == InitRows /\ [][NextRows]_vars

(* A table of one column driven by a loop over table(iterable).            *)

InitIter == Init /\ columns = <<"loss">>

NextIter ==
    \/ Wrap(1)
    \/ Step(1)
    \/ Abandon(1)
    \/ SetItem({"x"})
    \/ PrintRow
    \/ NextRow
    \/ Close
    \/ DisplayCustom

SpecIter == InitIter /\ [][NextIter]_vars

(* Progress bars drawn by hand, under an open header and on a fresh line,  *)
(* on tables of every column configuration.                                *)

NextBar ==
    \/ AddColumn
    \/ PrintRow
    \/ Close
    \/ (header_printed /\ cur = <<>> /\ PrintProgressBar)

SpecBar == Init /\ [][NextBar]_vars

-----------------------------------------------------------------------------
(* Properties.                                                             *)

Borders == {"top", "header", "center", "bottom"}

Lines == Range(out) \cup {cur}

TableUnchanged ==
    /\ columns' = columns
    /\ widths' = widths
    /\ colors' = colors
    /\ values' = values
    /\ num_rows' = num_rows
    /\ header_printed' = header_printed
    /\ needs_line_ending' = needs_line_ending
    /\ finished_rows' = finished_rows

(* C1: output left on the current line without a newline, a row redraw or  *)
(* a progress-bar redraw, is terminated before the next border or header   *)
(* line is printed: every border and every header starts its line.  The    *)
(* code breaks this: a progress-bar redraw does not set needs_line_ending, *)
(* so the next close() prints the bottom border behind the bar.            *)
C1_DirtyLineTerminated ==
    \A line \in Lines : \A i \in 1..Len(line) : line[i] \in Borders => i = 1

(* C2: a cell write to a key that is not a column raises and creates       *)
(* neither a column nor a buffer entry, and the keys of the row buffer are *)
(* always columns.                                                         *)
C2_UnknownKeyRejected ==
    /\ [](DOMAIN values \subseteq Range(columns))
    /\ [][(op'.name = "setitem" /\ op'.key \notin Range(columns))
            => (op'.err /\ columns' = columns /\ values' = values)]_vars

C2_Witness ==
    /\ op.name = "setitem"
    /\ op.err
    /\ op.key \notin Range(columns)
    /\ columns # <<>>
    /\ DOMAIN values # {}

ColumnsUnchanged == columns' = columns /\ widths' = widths /\ colors' = colors

(* C3 as claimed: once a header has been printed, every later add_column   *)
(* is rejected and leaves the columns, widths and colors unchanged, also   *)
(* after a close.  The code accepts add_column after close().              *)
C3_FrozenForever ==
    [][(op'.name = "add_column" /\ header_seen) => (op'.err /\ ColumnsUnchanged)]_vars

(* C3, amended: while the header is printed and not yet closed, every      *)
(* add_column is rejected and leaves the columns, widths and colors        *)
(* unchanged.                                                              *)
C3_FrozenWhileOpen ==
    [][(op'.name = "add_column" /\ header_printed) => (op'.err /\ ColumnsUnchanged)]_vars

C3_Witness ==
    /\ op.name = "add_column"
    /\ op.err
    /\ header_printed
    /\ DOMAIN values # {}
    /\ num_rows > 0

(* C4: the width a column is rendered with is at least the length of its   *)
(* name, for constructor columns and added columns alike.  The code breaks *)
(* this for a constructor column whose name is longer than the default     *)
(* width.                                                                  *)
C4_WidthCoversName ==
    \A i \in 1..Len(columns) :
        Lookup(widths, columns[i], default_column_width) >= Len(columns[i])

(* C5: a history entry, its keys and its values, is never changed once it  *)
(* has been appended.  The code breaks this: to_list() inserts the columns *)
(* added since into the entries it reads.                                  *)
C5_HistoryImmutable ==
    [][/\ Len(finished_rows') >= Len(finished_rows)
       /\ \A i \in 1..Len(finished_rows) : finished_rows'[i] = finished_rows[i]]_vars

(* C6: a call that raises leaves the row buffer and the row history as     *)
(* they were.  The code breaks this: display_custom closes an open table,  *)
(* which saves the pending row, before it checks the rows' lengths.        *)
C6_AbortLeavesRows ==
    [][op'.err => (values' = values /\ finished_rows' = finished_rows)]_vars

(* What the caller wrote to the finalized rows, in the order in which the  *)
(* rows were finalized, each row in the order of the columns, the empty    *)
(* string where the column was not written.                                *)
WrittenRows ==
    [i \in 1..Len(final) |->
        [j \in 1..Len(columns) |->
            IF columns[j] \in DOMAIN final[i] THEN final[i][columns[j]] ELSE ""]]

(* C7: to_list() returns the finalized rows in the order of finalization,  *)
(* each in column order, holding the value last written to the column in   *)
(* that row, or the empty string.                                          *)
C7_ToListOrder == to_list(Self) = WrittenRows

C7_Witness ==
    /\ op.name = "to_list"
    /\ Len(columns) = 2
    /\ columns[1] # columns[2]
    /\ Len(final) = 2
    /\ DOMAIN final[1] = {columns[2]}
    /\ DOMAIN final[2] = Range(columns)
    /\ final[2][columns[1]] # final[2][columns[2]]
    /\ final[1][columns[2]] # final[2][columns[2]]

(* C8: next_row(save) appends the buffer to the history and counts it when *)
(* save holds and the buffer is not empty, and leaves both alone           *)
(* otherwise; afterwards the buffer is empty and no line ending is owed;   *)
(* the columns and the header flag are unchanged.                          *)
C8_NextRowEffect ==
    [][op'.name = "next_row" =>
        /\ IF op'.save /\ DOMAIN values # {}
           THEN /\ finished_rows' = Append(finished_rows, values)
                /\ num_rows' = num_rows + 1
           ELSE /\ finished_rows' = finished_rows
                /\ num_rows' = num_rows
        /\ values' = EmptyMap
        /\ ~needs_line_ending'
        /\ columns' = columns
        /\ header_printed' = header_printed]_vars

C8_Witness ==
    /\ op.name = "next_row"
    /\ op.save
    /\ out = << <<"row">> >>
    /\ num_rows = 2
    /\ Len(finished_rows) = 2
    /\ finished_rows[1] # finished_rows[2]

EmptyTable == << <<"top">>, <<"header">>, <<"center">>, <<"bottom">> >>

(* C9 as claimed: a close() right after a close() leaves the table as it   *)
(* is and prints only a border, no header line and no row line.  The code  *)
(* prints the header again.                                                *)
C9_SecondCloseBorderOnly ==
    [][(op.name = "close" /\ op'.name = "close") =>
        /\ TableUnchanged
        /\ \A i \in 1..Len(out') : out'[i] \notin {<<"header">>, <<"row">>}]_vars

(* C9, amended: a close() right after a close() leaves the table as it is  *)
(* and prints an empty table: the top border, the header line, the centre  *)
(* border and the bottom border, and no row line.                          *)
C9_SecondCloseEmptyTable ==
    [][(op.name = "close" /\ op'.name = "close") =>
        /\ TableUnchanged
        /\ out' = EmptyTable
        /\ cur' = <<>>]_vars

C9_Witness ==
    /\ op.name = "close"
    /\ out = EmptyTable
    /\ num_rows > 0
    /\ columns # <<>>

(* C10: a wrapped iteration yields the elements of the iterable, in order  *)
(* and unchanged, and all of them when it is consumed to exhaustion.       *)
C10_YieldsAll ==
    \A g \in Gens :
        /\ Len(gen[g].yielded) <= Len(gen[g].items)
        /\ gen[g].yielded = SubSeq(gen[g].items, 1, Len(gen[g].yielded))
        /\ gen[g].pc = "done" => gen[g].yielded = gen[g].items

C10_Witness ==
    /\ gen[1].pc = "done"
    /\ op.name = "step"
    /\ Len(gen[1].items) = MaxLen
    /\ gen[1].items[1] # gen[1].items[2]
    /\ num_rows > 0
    /\ cur = <<"row">>

(* The fill counts of the bars print_progress_bar draws on the table as it *)
(* stands, for every total and every prefix and suffix length.             *)
NonDecreasing(n, tw) ==
    \A i \in 0..(n - 1) : num_hashes(i, n, tw) <= num_hashes(i + 1, n, tw)

FullAtTotal(n, tw) ==
    /\ num_hashes(n, n, tw) = tw
    /\ empty_glyphs(n, n, tw) = 0

(* C11 as stated: on a table of at least one column under an open header, *)
(* for every total of at least 1 and every prefix and suffix length,       *)
(* the number of fill glyphs does not decrease as                          *)
(* the completed count goes from 0 to the total, and at the total it       *)
(* equals the available width, with no empty glyph left.                   *)
C11_FillsAvailableWidth ==
    (header_printed /\ columns # <<>>) =>
        \A n \in 1..MaxTotal, before \in LabelLens, after \in LabelLens :
            LET tw == tot_width(Self, before, after)
            IN  NonDecreasing(n, tw) /\ FullAtTotal(n, tw)

(* C11, amended: the number of fill glyphs does not decrease as the        *)
(* completed count goes from 0 to the total; at the total it equals the    *)
(* available width and no empty glyph is left when that width is at least  *)
(* 1, and it is the single glyph of the floor, with no empty glyph,        *)
(* otherwise.                                                              *)
C11_FillsPositiveWidth ==
    \A n \in 1..MaxTotal, before \in LabelLens, after \in LabelLens :
        LET tw == tot_width(Self, before, after)
        IN  /\ NonDecreasing(n, tw)
            /\ tw >= 1 => FullAtTotal(n, tw)
            /\ tw < 1 => (num_hashes(n, n, tw) = 1 /\ empty_glyphs(n, n, tw) = 0)

C11_Witness ==
    /\ op.name = "print_progress_bar"
    /\ op.i = op.n
    /\ op.n = MaxTotal
    /\ Len(columns) = 2
    /\ cur = <<"bar">>
    /\ LET tw == tot_width(Self, op.show_before, op.show_after)
       IN  tw >= 1 /\ num_hashes(op.i, op.n, tw) = tw

(* C12: within one wrapped iteration a bar is redrawn for an element only  *)
(* when at least 1 / progress_bar_fps has elapsed since the previous       *)
(* redraw of that wrap; the first element of a non-empty iterable always   *)
(* causes a redraw; a non-empty wrap consumed to exhaustion has drawn at   *)
(* least one bar.                                                          *)
C12_RedrawThrottled ==
    [][op'.name = "step" =>
        LET G == gen[op'.g]
            H == gen'[op'.g]
        IN  /\ (op'.fired /\ G.pc = "suspended") =>
                    (G.drawn /\ G.since + op'.dt >= RedrawPeriod)
            /\ (G.pc = "created" /\ H.pc = "suspended") => op'.fired
            /\ op'.fired => (H.drawn /\ cur' = <<"bar">>)
            /\ (H.pc = "done" /\ H.items # <<>>) => H.drawn]_vars

C12_Witness ==
    /\ op.name = "step"
    /\ op.fired
    /\ op.dt = MaxDt
    /\ gen[1].pc = "suspended"
    /\ Len(gen[1].yielded) = 2
    /\ cur = <<"bar">>

(* C13: display_custom(data) and display() replay rows without saving      *)
(* them: whatever the state they are called in, the row history and the    *)
(* row counter are the same after the call as before it.                   *)
C13_ReplayKeepsHistory ==
    [][op'.name \in {"display_custom", "display"} =>
        /\ finished_rows' = finished_rows
        /\ num_rows' = num_rows]_vars

(* The row the caller has written: every column written holds the last     *)
(* value written to it, every other column the empty default.              *)
LastWritten ==
    [c \in Range(columns) |-> IF c \in DOMAIN written THEN written[c] ELSE ""]

(* C14: after any sequence of successful cell writes to one row, with no   *)
(* next_row or close between them, the row buffer maps every written       *)
(* column to the last value written to it and every other column to the    *)
(* empty default, in whatever order the columns were written.              *)
C14_LastWriteWins ==
    /\ DOMAIN written # {} => values = LastWritten
    /\ DOMAIN written = {} => values = EmptyMap

C14_Witness ==
    /\ op.name = "setitem"
    /\ ~op.err
    /\ Len(columns) = 2
    /\ columns[1] # columns[2]
    /\ DOMAIN written = {columns[2]}
    /\ written[columns[2]] = "y"
    /\ values[columns[1]] = ""
    /\ out = <<>>

(* C15: the names of the columns are pairwise distinct in every reachable  *)
(* state, whatever names the constructor and add_column are given.         *)
C15_UniqueNames ==
    \A i, j \in 1..Len(columns) : columns[i] = columns[j] => i = j

(* C16: after close(), from any state, the row buffer is empty, the        *)
(* header-printed flag is cleared, no line ending is owed, and the row     *)
(* history is the one before with the pending row appended once when the   *)
(* buffer was non-empty, and the one before otherwise.                     *)
C16_CloseEffect ==
    [][op'.name = "close" =>
        /\ values' = EmptyMap
        /\ ~header_printed'
        /\ ~needs_line_ending'
        /\ finished_rows' = IF DOMAIN values # {}
                            THEN Append(finished_rows, values)
                            ELSE finished_rows]_vars

C16_Witness ==
    /\ op.name = "close"
    /\ values = EmptyMap
    /\ ~header_printed
    /\ Len(finished_rows) = 2
    /\ finished_rows[2] = [c \in Range(columns) |-> IF c = columns[1] THEN "y" ELSE ""]
    /\ out = << <<"row">>, <<"bottom">> >>

(* The width and the color every column is printed with.                   *)
Styles(w, c, cols) ==
    [i \in 1..Len(cols) |->
        <<Lookup(w, cols[i], default_column_width), Lookup(c, cols[i], None)>>]

C18_PrintedUnderHeader == ~stray

(* C19: between the public operations, those that raised included, a line  *)
(* ending is owed exactly when the row buffer is non-empty, and a          *)
(* non-empty row buffer implies that the header is printed.                *)
C19_OwedIffPending ==
    /\ needs_line_ending <=> (DOMAIN values # {})
    /\ DOMAIN values # {} => header_printed

C19_Witness ==
    /\ op.name = "display_custom"
    /\ op.err
    /\ ~needs_line_ending
    /\ values = EmptyMap
    /\ num_rows > 0
    /\ gen[1].pc = "suspended"

=============================================================================
